---- MODULE Spec2Model ----
(***************************************************************************)
(* Model of the notebook editor of CatColab (NotebookEditor component):    *)
(* the cell sequence of the shared notebook, the local CellsState signal   *)
(* (active cell index and id-based cell selection), the per-cell actions,  *)
(* the insert/replace commands, the drag-and-drop reorder handler and the  *)
(* selectionchange observer. The handlers that edit the document are also  *)
(* modelled statement by statement, and the two long-lived subscriptions   *)
(* of the component (drag monitor, selectionchange listener) with the      *)
(* effects that own them.                                                  *)
(*                                                                         *)
(* Indices are 0-based as in the source; cells is a TLA+ sequence, so the  *)
(* cell at source index i is cells[i + 1].                                 *)
(***************************************************************************)
EXTENDS Integers, Sequences, FiniteSets, TLC

\* Bound on the number of cell ids ever created in one behaviour.
MaxIds == 3
\* Bound on the length of the cell sequence, and so of the notebook the
\* editor is mounted on.
MaxLen == 2
MaxInitLen == MaxLen
\* Bound on the length of the notebooks that the reorder algorithm is run on
\* by itself.
MaxReorderLen == 4

\* The three variants of the Cell tagged union.
Tags == {"stem", "rich-text", "formal"}
\* Tags of the cells made by the cell constructors (Text and the formal ones).
ConstructorTags == {"rich-text", "formal"}
\* Results of extractClosestEdge on the cells of the vertical list.
Edges == {"top", "bottom"}
\* Values of Selection.type of the platform's text selection that the
\* selectionchange listener tells apart: a range, or no range.
SelectionTypes == {"None", "Range"}

Ids == 1..MaxIds
\* No drop target under the pointer, or a target that is not a notebook cell.
NoTarget == 0

VARIABLES
    cells,          \* props.notebook.cells: sequence of [id, tag]
    cellsState,     \* the CellsState signal: [activeCell, selectedCells]
    textSelection,  \* document.getSelection().type
    nextId,         \* the next fresh CellId
    watch,          \* observer: the <<operation, branch>> pairs it records
    last,           \* observer: the last operation that ran if it is a
                    \* watched one (its name, the branch it took and whether
                    \* it submitted a transaction to changeNotebook),
                    \* "other" if not
    running,        \* the handler on the call stack, when handlers are run
                    \* statement by statement: its position, its arguments,
                    \* the draft nb of its transaction and (for the
                    \* properties) the document and the CellsState it was
                    \* called on
    subscriptions   \* the component's lifecycle: whether it is mounted, the
                    \* live drag monitors and selectionchange listeners and
                    \* how often each was registered

vars == <<cells, cellsState, textSelection, nextId, watch, last, running,
          subscriptions>>

activeCell == cellsState.activeCell
selectedCells == cellsState.selectedCells

\* The observer records the operation op, the branch it took and whether it
\* submitted a transaction; it has no effect on the program's state.
Note(op, path, tx) ==
    /\ last' = IF <<op, path>> \in watch
               THEN [op |-> op, path |-> path, tx |-> tx]
               ELSE [op |-> "other", path |-> "", tx |-> FALSE]
    /\ watch' = watch

----------------------------------------------------------------------------
(* Helpers: arrays, cells *)

Min(a, b) == IF a < b THEN a ELSE b

\* Array.prototype.splice's normalisation of its start argument.
SpliceStart(start, len) ==
    IF start < 0
    THEN (IF len + start < 0 THEN 0 ELSE len + start)
    ELSE (IF start > len THEN len ELSE start)

\* s.splice(start, 0, c)
SpliceInsert(s, start, c) ==
    LET k == SpliceStart(start, Len(s))
    IN SubSeq(s, 1, k) \o <<c>> \o SubSeq(s, k + 1, Len(s))

\* s.splice(start, 1): the array after the removal
SpliceRemove(s, start) ==
    LET k == SpliceStart(start, Len(s))
    IN IF k >= Len(s) THEN s
       ELSE SubSeq(s, 1, k) \o SubSeq(s, k + 2, Len(s))

\* s.splice(start, 1): the removed elements
SpliceRemoved(s, start) ==
    LET k == SpliceStart(start, Len(s))
    IN IF k >= Len(s) THEN <<>> ELSE <<s[k + 1]>>

\* s.findIndex((cell) => cell.id === id)
findIndex(s, id) ==
    IF \E k \in 1..Len(s) : s[k].id = id
    THEN (CHOOSE k \in 1..Len(s) :
            /\ s[k].id = id
            /\ \A j \in 1..(k - 1) : s[j].id # id) - 1
    ELSE -1

newStemCell(id) == [id |-> id, tag |-> "stem"]
\* construct() of a cell constructor: a rich-text cell or a formal cell.
construct(id, tag) == [id |-> id, tag |-> tag]

\* JSON.parse(JSON.stringify(cell)): a new object with the same fields.
deepCopyJSON(c) == [id |-> c.id, tag |-> c.tag]

\* The ids of the cells of s, the number of cells of s with a given id, and
\* s without the cells of that id.
IdSet(s) == {s[k].id : k \in 1..Len(s)}
Count(s, id) == Cardinality({k \in 1..Len(s) : s[k].id = id})
RECURSIVE Without(_, _)
Without(s, id) ==
    IF s = <<>> THEN <<>>
    ELSE IF Head(s).id = id THEN Without(Tail(s), id)
    ELSE <<Head(s)>> \o Without(Tail(s), id)

Indices == 0..(Len(cells) - 1)
\* The indices that a handler is ever called with.
Positions == 0..MaxLen

\* No handler is on the call stack.
Idle == [pc |-> "idle", op |-> "", i |-> 0, j |-> 0, nb |-> <<>>,
         start |-> <<>>,
         startState |-> [activeCell |-> -1, selectedCells |-> {}]]

\* The component after its first render: both effects have run once.
Mounted == [mounted |-> TRUE,
            dragMonitors |-> 1, monitorRegistrations |-> 1,
            selectionListeners |-> 1, listenerRegistrations |-> 1]

----------------------------------------------------------------------------
(* CellsState setters *)

\* Mutant of setActiveCell: the selection is not cleared.
setActiveCell_keepSelection(prev, i) ==
    [prev EXCEPT !.activeCell = i]

setActiveCell(prev, i) ==
    [prev EXCEPT !.activeCell = i, !.selectedCells = {}]

setActiveCellViaFocus(prev, i) ==
    [prev EXCEPT !.activeCell = i]

\* Mutant of setSelectedCells: the text selection is left alone.
setSelectedCells_keepText(s) ==
    /\ cellsState' = [cellsState EXCEPT !.selectedCells = s]
    /\ textSelection' = textSelection

\* setSelectedCells(s): replaces the selection and, when s is not empty,
\* removes all ranges of the text selection.
setSelectedCells(s) ==
    /\ cellsState' = [cellsState EXCEPT !.selectedCells = s]
    /\ textSelection' = IF s # {} THEN "None" ELSE textSelection

\* Mutant of newSelection: the id is added, never removed.
newSelection_addOnly(prev, cellId) == prev \cup {cellId}

\* The updater of toggleCellSelection.
newSelection(prev, cellId) ==
    IF cellId \in prev THEN prev \ {cellId} ELSE prev \cup {cellId}

toggleCellSelection(cellId) ==
    setSelectedCells(newSelection(selectedCells, cellId))

----------------------------------------------------------------------------
InitProgram ==
    /\ \E n \in 0..MaxInitLen :
         /\ cells \in [1..n -> {[id |-> k, tag |-> t] : k \in 1..n, t \in Tags}]
         /\ \A k \in 1..n : cells[k].id = k
         /\ nextId = n + 1
         /\ cellsState = [activeCell |-> IF n > 0 THEN 0 ELSE -1,
                          selectedCells |-> {}]
    /\ textSelection = "None"
    /\ last = [op |-> "init", path |-> "", tx |-> FALSE]
    /\ running = Idle
    /\ subscriptions = Mounted

\* Without an observer.
Init == InitProgram /\ watch = {}

\* The editor mounted on a notebook of up to MaxReorderLen cells of any tags.
InitReorder ==
    /\ \E n \in 2..MaxReorderLen :
         /\ cells \in [1..n -> {[id |-> k, tag |-> t] : k \in 1..n, t \in Tags}]
         /\ \A k \in 1..n : cells[k].id = k
         /\ nextId = n + 1
         /\ cellsState = [activeCell |-> 0, selectedCells |-> {}]
    /\ textSelection = "None"
    /\ last = [op |-> "init", path |-> "", tx |-> FALSE]
    /\ running = Idle
    /\ subscriptions = Mounted
    /\ watch = {<<"onDrop", "move">>}

CanCreate == nextId <= MaxIds /\ Len(cells) < MaxLen

----------------------------------------------------------------------------
(* Effects *)

\* The reactive sources that the bodies of the two effects read while they
\* run: none (props.notebook and selectedCells() are read by the callbacks
\* they register, not by the effects).
monitorEffectDeps == {}
selectionEffectDeps == {}

\* The reactive sources that a step has changed.
Changed ==
    (IF cells' # cells THEN {"notebook"} ELSE {})
      \cup (IF cellsState' # cellsState THEN {"cellsState"} ELSE {})

\* After a handler, Solid runs again every effect that read a source which
\* has changed: first its onCleanup callbacks, then its body.
runEffects ==
    subscriptions' =
        IF subscriptions.mounted
        THEN [subscriptions EXCEPT
                !.monitorRegistrations =
                    IF monitorEffectDeps \cap Changed # {} THEN @ + 1 ELSE @,
                !.listenerRegistrations =
                    IF selectionEffectDeps \cap Changed # {} THEN @ + 1 ELSE @]
        ELSE subscriptions

\* A handler that is modelled as one step has run to completion: the
\* effects have run and no handler is left on the call stack.
handlerDone ==
    /\ runEffects
    /\ UNCHANGED running

----------------------------------------------------------------------------
(* Document edits that go through changeNotebook *)

addAfterActiveCell(cell) ==
    /\ cells' = SpliceInsert(cells, activeCell + 1, cell)
    /\ cellsState' = setActiveCell(cellsState, activeCell + 1)

\* nb.cells[i] = cell. An assignment at an index of the list overwrites the
\* element; at the length of the list it adds an element; past the length
\* the list of the document rejects the index, the transaction function
\* throws and nothing is committed.
replaceCellWith(i, cell) ==
    /\ cells' = IF i \in Indices THEN [cells EXCEPT ![i + 1] = cell]
                ELSE IF i = Len(cells) THEN Append(cells, cell)
                ELSE cells
    /\ UNCHANGED cellsState

\* Mutant of addOrReplaceActiveCell: a stem cell is not replaced.
addOrReplaceActiveCell_alwaysAdd(cell) == addAfterActiveCell(cell)

addOrReplaceActiveCell(cell) ==
    IF activeCell \in Indices
    THEN IF cells[activeCell + 1].tag \in {"formal", "rich-text"}
         THEN addAfterActiveCell(cell)
         ELSE IF cells[activeCell + 1].tag = "stem"
         THEN replaceCellWith(activeCell, cell)
         ELSE UNCHANGED <<cells, cellsState>>
    ELSE addAfterActiveCell(cell)

\* Mutant of appendCell: the active index is the new length.
appendCell_activeLength(cell) ==
    /\ cells' = Append(cells, cell)
    /\ cellsState' = setActiveCell(cellsState, Len(cells'))

appendCell(cell) ==
    /\ cells' = Append(cells, cell)
    /\ cellsState' = setActiveCell(cellsState, Len(cells') - 1)

----------------------------------------------------------------------------
(* Per-cell actions (cellActions of the cell rendered at index i) *)

activateAbove(i) ==
    /\ i \in Indices
    /\ cellsState' = IF i > 0 THEN setActiveCell(cellsState, i - 1)
                     ELSE cellsState
    /\ Note("activateAbove", IF i > 0 THEN "moved" ELSE "noop", FALSE)
    /\ UNCHANGED <<cells, textSelection, nextId>>
    /\ handlerDone

\* Mutant of activateBelow: no check against the length.
activateBelow_unchecked(i) ==
    /\ i \in Indices
    /\ cellsState' = setActiveCell(cellsState, i + 1)
    /\ Note("activateBelow", IF i < Len(cells) - 1 THEN "moved" ELSE "noop", FALSE)
    /\ UNCHANGED <<cells, textSelection, nextId>>
    /\ handlerDone

activateBelow(i) ==
    /\ i \in Indices
    /\ cellsState' = IF i < Len(cells) - 1 THEN setActiveCell(cellsState, i + 1)
                     ELSE cellsState
    /\ Note("activateBelow", IF i < Len(cells) - 1 THEN "moved" ELSE "noop", FALSE)
    /\ UNCHANGED <<cells, textSelection, nextId>>
    /\ handlerDone

createAbove(i) ==
    /\ i \in Indices
    /\ CanCreate
    /\ cells' = SpliceInsert(cells, i, newStemCell(nextId))
    /\ cellsState' = setActiveCell(cellsState, i)
    /\ nextId' = nextId + 1
    /\ Note("createAbove", "", TRUE)
    /\ UNCHANGED <<textSelection>>
    /\ handlerDone

\* Mutant of createBelow: the active index is the index of the cell above.
createBelow_activeAbove(i) ==
    /\ i \in Indices
    /\ CanCreate
    /\ cells' = SpliceInsert(cells, i + 1, newStemCell(nextId))
    /\ cellsState' = setActiveCell(cellsState, i)
    /\ nextId' = nextId + 1
    /\ Note("createBelow", "", TRUE)
    /\ UNCHANGED <<textSelection>>
    /\ handlerDone

createBelow(i) ==
    /\ i \in Indices
    /\ CanCreate
    /\ cells' = SpliceInsert(cells, i + 1, newStemCell(nextId))
    /\ cellsState' = setActiveCell(cellsState, i + 1)
    /\ nextId' = nextId + 1
    /\ Note("createBelow", "", TRUE)
    /\ UNCHANGED <<textSelection>>
    /\ handlerDone

\* Mutant of deleteBackward: the new active index is clamped at 0.
deleteBackward_clamped(i) ==
    /\ i \in Indices
    /\ cells' = SpliceRemove(cells, i)
    /\ cellsState' = setActiveCell(cellsState, IF i > 0 THEN i - 1 ELSE 0)
    /\ Note("deleteBackward", "", TRUE)
    /\ UNCHANGED <<textSelection, nextId>>
    /\ handlerDone

deleteBackward(i) ==
    /\ i \in Indices
    /\ cells' = SpliceRemove(cells, i)
    /\ cellsState' = setActiveCell(cellsState, i - 1)
    /\ Note("deleteBackward", "", TRUE)
    /\ UNCHANGED <<textSelection, nextId>>
    /\ handlerDone

deleteForward(i) ==
    /\ i \in Indices
    /\ cells' = SpliceRemove(cells, i)
    /\ cellsState' = setActiveCell(cellsState, i)
    /\ Note("deleteForward", "", TRUE)
    /\ UNCHANGED <<textSelection, nextId>>
    /\ handlerDone

hasFocused(i) ==
    /\ i \in Indices
    /\ cellsState' = setActiveCellViaFocus(cellsState, i)
    /\ Note("hasFocused", "", FALSE)
    /\ UNCHANGED <<cells, textSelection, nextId>>
    /\ handlerDone

select(i) ==
    /\ i \in Indices
    /\ setSelectedCells({cells[i + 1].id})
    /\ Note("select", "", FALSE)
    /\ UNCHANGED <<cells, nextId>>
    /\ handlerDone

\* onClickCellContent of the cell at index i, with or without the Ctrl key.
handleCellContentClick(i, ctrlKey) ==
    /\ i \in Indices
    /\ IF ctrlKey
       THEN toggleCellSelection(cells[i + 1].id)
       ELSE UNCHANGED <<cellsState, textSelection>>
    /\ Note("handleCellContentClick", IF ctrlKey THEN "toggle" ELSE "none", FALSE)
    /\ UNCHANGED <<cells, nextId>>
    /\ handlerDone

----------------------------------------------------------------------------
(* Commands, shortcuts and buttons *)

\* Shift+Enter: addAfterActiveCell(newStemCell())
ShiftEnter ==
    /\ CanCreate
    /\ addAfterActiveCell(newStemCell(nextId))
    /\ nextId' = nextId + 1
    /\ Note("addAfterActiveCell", "", TRUE)
    /\ UNCHANGED <<textSelection>>
    /\ handlerDone

\* onComplete of an insert command: addOrReplaceActiveCell(cc.construct())
insertCommand(tag) ==
    /\ nextId <= MaxIds
    /\ (activeCell \in Indices /\ cells[activeCell + 1].tag = "stem")
           \/ Len(cells) < MaxLen
    /\ addOrReplaceActiveCell(construct(nextId, tag))
    /\ nextId' = nextId + 1
    /\ Note("addOrReplaceActiveCell",
            IF activeCell \notin Indices THEN "addNoActive"
            ELSE IF cells[activeCell + 1].tag = "stem" THEN "replace"
            ELSE "add",
            TRUE)
    /\ UNCHANGED <<textSelection>>
    /\ handlerDone

\* onComplete of a replace command of the stem cell editor at index i
replaceCommand(i, tag) ==
    /\ i \in Indices
    /\ cells[i + 1].tag = "stem"
    /\ nextId <= MaxIds
    /\ replaceCellWith(i, construct(nextId, tag))
    /\ nextId' = nextId + 1
    /\ Note("replaceCellWith", "", TRUE)
    /\ UNCHANGED <<textSelection>>
    /\ handlerDone

\* onComplete of a replace command that was built for the index i (line 206
\* holds the index as a number), whatever the sequence has become since.
replaceCommandBuiltFor(i, tag) ==
    /\ i \in Positions
    /\ nextId <= MaxIds
    /\ i = Len(cells) => Len(cells) < MaxLen
    /\ replaceCellWith(i, construct(nextId, tag))
    /\ nextId' = nextId + 1
    /\ Note("replaceCellWith", "builtFor", TRUE)
    /\ UNCHANGED <<textSelection>>
    /\ handlerDone

\* The two "create a cell" buttons: appendCell(newStemCell()). One is shown
\* when the notebook is empty, the other when some cell is not a stem cell.
appendButton ==
    /\ Len(cells) = 0 \/ \E k \in 1..Len(cells) : cells[k].tag # "stem"
    /\ CanCreate
    /\ appendCell(newStemCell(nextId))
    /\ nextId' = nextId + 1
    /\ Note("appendCell", "", TRUE)
    /\ UNCHANGED <<textSelection>>
    /\ handlerDone

----------------------------------------------------------------------------
(* Drag and drop of notebook cells *)

\* getReorderDestinationIndex({startIndex, indexOfTarget,
\* closestEdgeOfTarget, axis: "vertical"})
getReorderDestinationIndex(startIndex, indexOfTarget, closestEdgeOfTarget) ==
    IF startIndex = -1 \/ indexOfTarget = -1 THEN startIndex
    ELSE IF startIndex = indexOfTarget THEN startIndex
    ELSE IF closestEdgeOfTarget = "none" THEN indexOfTarget
    ELSE IF startIndex < indexOfTarget
         THEN (IF closestEdgeOfTarget = "bottom"
               THEN indexOfTarget ELSE indexOfTarget - 1)
         ELSE (IF closestEdgeOfTarget = "bottom"
               THEN indexOfTarget + 1 ELSE indexOfTarget)

\* Mutant of moveCell: the source is not removed.
moveCell_noRemove(s, sourceIndex, finalIndex) ==
    SpliceInsert(s, finalIndex, deepCopyJSON(s[sourceIndex + 1]))

\* Mutant of moveCell: the copy is inserted before the source is removed.
moveCell_insertFirst(s, sourceIndex, finalIndex) ==
    SpliceRemove(SpliceInsert(s, finalIndex, deepCopyJSON(s[sourceIndex + 1])),
                 sourceIndex)

\* Mutant of moveCell: the source is removed and no copy is inserted.
moveCell_noInsert(s, sourceIndex, finalIndex) ==
    SpliceRemove(s, sourceIndex)

\* The transaction of onDrop: remove the source, insert a copy of it.
moveCell(s, sourceIndex, finalIndex) ==
    LET removed == SpliceRemoved(s, sourceIndex)
    IN SpliceInsert(SpliceRemove(s, sourceIndex), finalIndex,
                    deepCopyJSON(removed[1]))

\* Mutant of onDropCells: the target index is taken as the destination.
onDropCells_targetIndex(s, sourceId, targetId, closestEdge) ==
    LET sourceIndex == findIndex(s, sourceId)
        targetIndex == findIndex(s, targetId)
    IN IF targetId = NoTarget \/ sourceIndex < 0 \/ targetIndex < 0
       THEN s
       ELSE moveCell(s, sourceIndex, targetIndex)

\* The cell sequence that onDrop leaves: s itself when the handler returns
\* early, and the outcome of its transaction otherwise.
onDropCells(s, sourceId, targetId, closestEdge) ==
    LET sourceIndex == findIndex(s, sourceId)
        targetIndex == findIndex(s, targetId)
        finalIndex == getReorderDestinationIndex(sourceIndex, targetIndex,
                                                 closestEdge)
    IN IF targetId = NoTarget \/ sourceIndex < 0 \/ targetIndex < 0
       THEN s
       ELSE moveCell(s, sourceIndex, finalIndex)

\* Mutant of onDrop: the source index is not checked before the transaction.
onDrop_sourceUnchecked(sourceId, targetId, closestEdge) ==
    LET sourceIndex == findIndex(cells, sourceId)
        targetIndex == findIndex(cells, targetId)
        finalIndex == getReorderDestinationIndex(sourceIndex, targetIndex,
                                                 closestEdge)
        submits == targetId # NoTarget /\ targetIndex >= 0
    IN /\ sourceId \in 1..(nextId - 1)
       /\ targetId \in (1..(nextId - 1)) \cup {NoTarget}
       /\ cells' = IF submits
                   THEN SpliceInsert(SpliceRemove(cells, sourceIndex),
                                     finalIndex,
                                     deepCopyJSON(cells[SpliceStart(
                                         sourceIndex, Len(cells)) + 1]))
                   ELSE cells
       /\ IF targetId = NoTarget
          THEN Note("onDrop", "noTarget", submits)
          ELSE IF sourceIndex < 0 \/ targetIndex < 0
          THEN Note("onDrop", "stale", submits)
          ELSE Note("onDrop",
                    IF sourceIndex = targetIndex THEN "self" ELSE "move",
                    submits)
       /\ UNCHANGED <<cellsState, textSelection, nextId>>
       /\ handlerDone

\* onDrop of the monitor. sourceId is the id of the dragged cell, which was a
\* cell of the notebook when the drag started (canMonitor); targetId is the
\* id carried by the innermost drop target, or NoTarget. The observer files
\* the drop by its ids: no target, an id that is not in the sequence
\* ("stale"), source = target ("self"), or a move.
onDrop(sourceId, targetId, closestEdge) ==
    LET sourceIndex == findIndex(cells, sourceId)
        targetIndex == findIndex(cells, targetId)
    IN /\ sourceId \in 1..(nextId - 1)
       /\ targetId \in (1..(nextId - 1)) \cup {NoTarget}
       /\ cells' = onDropCells(cells, sourceId, targetId, closestEdge)
       /\ IF targetId = NoTarget
          THEN Note("onDrop", "noTarget", FALSE)
          ELSE IF sourceIndex < 0 \/ targetIndex < 0
          THEN Note("onDrop", "stale", FALSE)
          ELSE Note("onDrop",
                    IF sourceIndex = targetIndex THEN "self" ELSE "move",
                    TRUE)
       /\ UNCHANGED <<cellsState, textSelection, nextId>>
       /\ handlerDone

----------------------------------------------------------------------------
(* The platform's text selection and the selectionchange observer *)

\* The selectionchange listener. The platform dispatches the event after the
\* user has changed the text selection to one of the given type; the
\* listener reads it back with document.getSelection().
handleSelectionChange(type) ==
    /\ IF type = "Range" /\ Cardinality(selectedCells) > 0
       THEN /\ cellsState' = [cellsState EXCEPT !.selectedCells = {}]
            /\ textSelection' = type
       ELSE /\ textSelection' = type
            /\ UNCHANGED cellsState
    /\ Note("handleSelectionChange",
            IF type = "Range" /\ Cardinality(selectedCells) > 0
            THEN "clearCells" ELSE "none",
            FALSE)
    /\ UNCHANGED <<cells, nextId>>
    /\ handlerDone

\* The user changes the text selection and no listener of the component is
\* registered on the document.
selectionChangeUnheard(type) ==
    /\ textSelection' = type
    /\ Note("selectionchange", "unheard", FALSE)
    /\ UNCHANGED <<cells, cellsState, nextId, running, subscriptions>>

----------------------------------------------------------------------------
(* The end of the editor session *)

\* Mutant of Unmount: the selectionchange listener is not removed.
Unmount_keepsListener ==
    /\ subscriptions.mounted
    /\ running.pc = "idle"
    /\ subscriptions' = [subscriptions EXCEPT
                            !.mounted = FALSE,
                            !.dragMonitors = @ - 1]
    /\ Note("Unmount", "", FALSE)
    /\ UNCHANGED <<cells, cellsState, textSelection, nextId, running>>

\* The component is disposed: the onCleanup callbacks of the two effects
\* run, which stop the drag monitor and remove the selectionchange listener.
Unmount ==
    /\ subscriptions.mounted
    /\ running.pc = "idle"
    /\ subscriptions' = [subscriptions EXCEPT
                            !.mounted = FALSE,
                            !.dragMonitors = @ - 1,
                            !.selectionListeners = @ - 1]
    /\ Note("Unmount", "", FALSE)
    /\ UNCHANGED <<cells, cellsState, textSelection, nextId, running>>

----------------------------------------------------------------------------
(* Merges of the edits of other collaborators into the shared document *)

RemoteInsert(pos, tag) ==
    /\ pos \in 0..Len(cells)
    /\ CanCreate
    /\ cells' = SpliceInsert(cells, pos, construct(nextId, tag))
    /\ nextId' = nextId + 1
    /\ Note("RemoteInsert", "", FALSE)
    /\ UNCHANGED <<cellsState, textSelection>>
    /\ handlerDone

RemoteDelete(pos) ==
    /\ pos \in Indices
    /\ cells' = SpliceRemove(cells, pos)
    /\ Note("RemoteDelete", "", FALSE)
    /\ UNCHANGED <<cellsState, textSelection, nextId>>
    /\ handlerDone

----------------------------------------------------------------------------
(* The handlers that edit the document, statement by statement.           *)
(* changeNotebook(f) runs f on a draft nb of the document and commits the  *)
(* draft when f has returned; a transaction that fails leaves the document *)
(* as it was. The handlers are synchronous: a remote merge is a task of    *)
(* its own and runs when the call stack is empty.                          *)

\* The per-cell actions that edit the document, and the two operations that
\* are given the cell to insert.
CellEditOps == {"createAbove", "createBelow", "deleteBackward", "deleteForward"}
InsertOps == {"addAfterActiveCell", "appendCell"}

CallStackEmpty == running.pc \in {"idle", "awaiting"}

\* The draft after the splice or push of the transaction function of op,
\* where cell is the inserted cell.
draft(op, nb, i, j, cell) ==
    CASE op = "addAfterActiveCell" -> SpliceInsert(nb, activeCell + 1, cell)
      [] op = "appendCell" -> Append(nb, cell)
      [] op = "createAbove" -> SpliceInsert(nb, i, cell)
      [] op = "createBelow" -> SpliceInsert(nb, i + 1, cell)
      [] op = "deleteBackward" -> SpliceRemove(nb, i)
      [] op = "deleteForward" -> SpliceRemove(nb, i)
      [] op = "onDrop" -> moveCell(nb, i, j)

\* The argument of the setActiveCell call of the transaction function of op.
newActiveCell(op, nb, i) ==
    CASE op = "addAfterActiveCell" -> activeCell + 1
      [] op = "appendCell" -> Len(nb) - 1
      [] op = "createAbove" -> i
      [] op = "createBelow" -> i + 1
      [] op = "deleteBackward" -> i - 1
      [] op = "deleteForward" -> i

\* A per-cell action of the cell at index i is called.
callCellAction(op, i) ==
    /\ running.pc = "idle"
    /\ i \in Indices
    /\ op \in {"createAbove", "createBelow"} => CanCreate
    /\ running' = [Idle EXCEPT !.pc = "changeNotebook", !.op = op, !.i = i,
                          !.start = cells, !.startState = cellsState]
    /\ Note("call", "", FALSE)
    /\ UNCHANGED <<cells, cellsState, textSelection, nextId>>
    /\ runEffects

\* Shift+Enter or one of the two buttons: the new stem cell is made, then
\* addAfterActiveCell or appendCell is called with it.
callInsert(op) ==
    /\ running.pc = "idle"
    /\ CanCreate
    /\ op = "appendCell" =>
         (Len(cells) = 0 \/ \E k \in 1..Len(cells) : cells[k].tag # "stem")
    /\ running' = [Idle EXCEPT !.pc = "changeNotebook", !.op = op, !.j = nextId,
                          !.start = cells, !.startState = cellsState]
    /\ nextId' = nextId + 1
    /\ Note("call", "", FALSE)
    /\ UNCHANGED <<cells, cellsState, textSelection>>
    /\ runEffects

\* Mutant of onDropLookup: the handler awaits before it opens the
\* transaction, which lets other tasks run.
onDropLookup_awaits(sourceId, targetId, closestEdge) ==
    LET sourceIndex == findIndex(cells, sourceId)
        targetIndex == findIndex(cells, targetId)
    IN /\ running.pc = "idle"
       /\ sourceId \in 1..(nextId - 1)
       /\ targetId \in 1..(nextId - 1)
       /\ sourceIndex >= 0 /\ targetIndex >= 0
       /\ running' = [Idle EXCEPT
                        !.pc = "awaiting", !.op = "onDrop", !.i = sourceIndex,
                        !.start = cells, !.startState = cellsState,
                        !.j = getReorderDestinationIndex(sourceIndex,
                                  targetIndex, closestEdge)]
       /\ Note("call", "", FALSE)
       /\ UNCHANGED <<cells, cellsState, textSelection, nextId>>
       /\ runEffects

\* onDrop up to its call of changeNotebook, for a drop that gets there: both
\* ids are looked up in props.notebook and the destination is computed.
onDropLookup(sourceId, targetId, closestEdge) ==
    LET sourceIndex == findIndex(cells, sourceId)
        targetIndex == findIndex(cells, targetId)
    IN /\ running.pc = "idle"
       /\ sourceId \in 1..(nextId - 1)
       /\ targetId \in 1..(nextId - 1)
       /\ sourceIndex >= 0 /\ targetIndex >= 0
       /\ running' = [Idle EXCEPT
                        !.pc = "changeNotebook", !.op = "onDrop",
                        !.i = sourceIndex, !.start = cells, !.startState = cellsState,
                        !.j = getReorderDestinationIndex(sourceIndex,
                                  targetIndex, closestEdge)]
       /\ Note("call", "", FALSE)
       /\ UNCHANGED <<cells, cellsState, textSelection, nextId>>
       /\ runEffects

\* Mutant of txSplice: the handler edits props.notebook.cells itself instead
\* of the draft.
txSplice_direct ==
    LET op == running.op
        id == IF op \in InsertOps THEN running.j ELSE nextId
        after == draft(op, cells, running.i, running.j, newStemCell(id))
    IN /\ running.pc \in {"changeNotebook", "awaiting"}
       /\ cells' = after
       /\ running' = [running EXCEPT
                        !.pc = IF op = "onDrop" THEN "returned" ELSE "spliced",
                        !.nb = after]
       /\ nextId' = IF op \in {"createAbove", "createBelow"}
                    THEN nextId + 1 ELSE nextId
       /\ Note("splice", "", FALSE)
       /\ UNCHANGED <<cellsState, textSelection>>
       /\ runEffects

\* changeNotebook opens a draft of the current document and the transaction
\* function does its splice or push on it (two splices for onDrop, which
\* then returns).
txSplice ==
    LET op == running.op
        id == IF op \in InsertOps THEN running.j ELSE nextId
    IN /\ running.pc \in {"changeNotebook", "awaiting"}
       /\ running' = [running EXCEPT
                        !.pc = IF op = "onDrop" THEN "returned" ELSE "spliced",
                        !.nb = draft(op, cells, running.i, running.j,
                                     newStemCell(id))]
       /\ nextId' = IF op \in {"createAbove", "createBelow"}
                    THEN nextId + 1 ELSE nextId
       /\ Note("splice", "", FALSE)
       /\ UNCHANGED <<cells, cellsState, textSelection>>
       /\ runEffects

\* The transaction function throws at its first statement.
txThrow ==
    /\ running.pc \in {"changeNotebook", "awaiting"}
    /\ running' = Idle
    /\ Note("changeNotebook", "threw", TRUE)
    /\ UNCHANGED <<cells, cellsState, textSelection, nextId>>
    /\ runEffects

\* The setActiveCell call that ends the transaction function.
txSetActiveCell ==
    /\ running.pc = "spliced"
    /\ cellsState' = setActiveCell(cellsState,
                         newActiveCell(running.op, running.nb, running.i))
    /\ running' = [running EXCEPT !.pc = "returned"]
    /\ Note("setActiveCell", "", FALSE)
    /\ UNCHANGED <<cells, textSelection, nextId>>
    /\ runEffects

\* The transaction function has returned and the draft is committed.
txCommit ==
    /\ running.pc = "returned"
    /\ cells' = running.nb
    /\ running' = Idle
    /\ Note("changeNotebook", "committed", TRUE)
    /\ UNCHANGED <<cellsState, textSelection, nextId>>
    /\ runEffects

\* The transaction function has returned and the transaction fails.
txFail ==
    /\ running.pc = "returned"
    /\ running' = Idle
    /\ Note("changeNotebook", "failed", TRUE)
    /\ UNCHANGED <<cells, cellsState, textSelection, nextId>>
    /\ runEffects

----------------------------------------------------------------------------
\* The events that the elements of the component handle.
ComponentNext ==
    \/ \E i \in Positions : activateAbove(i)
    \/ \E i \in Positions : activateBelow(i)
    \/ \E i \in Positions : createAbove(i)
    \/ \E i \in Positions : createBelow(i)
    \/ \E i \in Positions : deleteBackward(i)
    \/ \E i \in Positions : deleteForward(i)
    \/ \E i \in Positions : hasFocused(i)
    \/ \E i \in Positions : select(i)
    \/ \E i \in Positions, ctrlKey \in BOOLEAN : handleCellContentClick(i, ctrlKey)
    \/ ShiftEnter
    \/ \E tag \in ConstructorTags : insertCommand(tag)
    \/ \E i \in Positions, tag \in ConstructorTags : replaceCommand(i, tag)
    \/ appendButton

\* The drops that the drag monitor is told of.
DropNext ==
    \E sourceId \in 1..(nextId - 1), targetId \in 0..(nextId - 1),
       edge \in Edges :
        onDrop(sourceId, targetId, edge)

\* The selectionchange events that the listener on the document is told of.
SelectionChangeNext ==
    \E type \in SelectionTypes : handleSelectionChange(type)

\* The events of the local editor session.
LocalNext ==
    \/ ComponentNext
    \/ DropNext
    \/ SelectionChangeNext

\* The merges of remote edits.
RemoteNext ==
    \/ \E pos \in Positions, tag \in Tags : RemoteInsert(pos, tag)
    \/ \E pos \in Positions : RemoteDelete(pos)

Next == LocalNext \/ RemoteNext

Spec == Init /\ [][Next]_vars

\* The editor session alone, with no collaborator.
SpecLocal == Init /\ [][LocalNext]_vars

\* The handlers that edit the document run statement by statement; remote
\* merges and the handlers that only touch CellsState run when the call
\* stack is empty.
StepNext ==
    \/ \E op \in CellEditOps, i \in Positions : callCellAction(op, i)
    \/ \E op \in InsertOps : callInsert(op)
    \/ \E sourceId \in 1..(nextId - 1), targetId \in 1..(nextId - 1),
          edge \in Edges :
           onDropLookup(sourceId, targetId, edge)
    \/ txSplice
    \/ txThrow
    \/ txSetActiveCell
    \/ txCommit
    \/ txFail
    \/ /\ CallStackEmpty
       /\ \/ RemoteNext
          \/ \E i \in Positions : select(i)

InitSteps == InitProgram /\ watch = {}
SpecSteps == InitSteps /\ [][StepNext]_vars

InitStepsFailed ==
    InitProgram /\ watch = {<<"changeNotebook", "threw">>,
                            <<"changeNotebook", "failed">>}
SpecStepsFailed == InitStepsFailed /\ [][StepNext]_vars

\* The same behaviours, with an observer of one branch of one operation.
InitDeleteBackward == InitProgram /\ watch = {<<"deleteBackward", "">>}
SpecDeleteBackward == InitDeleteBackward /\ [][Next]_vars

InitDropMove == InitProgram /\ watch = {<<"onDrop", "move">>}
SpecDropMove == InitDropMove /\ [][Next]_vars

\* The drag-and-drop reorder by itself, on longer notebooks.
ReorderNext ==
    \E sourceId \in 1..(nextId - 1), targetId \in 0..(nextId - 1),
       edge \in Edges :
        onDrop(sourceId, targetId, edge)

SpecReorder == InitReorder /\ [][ReorderNext]_vars

InitDropStale == InitProgram /\ watch = {<<"onDrop", "stale">>}
SpecDropStale == InitDropStale /\ [][Next]_vars

InitInsertReplace == InitProgram /\ watch = {<<"addOrReplaceActiveCell", "replace">>}
SpecInsertReplace == InitInsertReplace /\ [][Next]_vars

InitFocus == InitProgram /\ watch = {<<"hasFocused", "">>}
SpecFocus == InitFocus /\ [][Next]_vars

InitToggle == InitProgram /\ watch = {<<"handleCellContentClick", "toggle">>}
SpecToggle == InitToggle /\ [][Next]_vars

InitSelectionSurvives ==
    InitProgram /\ watch = {<<"RemoteInsert", "">>, <<"onDrop", "move">>}
SpecSelectionSurvives == InitSelectionSurvives /\ [][Next]_vars

\* The same, and replace commands that complete with the index they were
\* built for.
ReplaceNext ==
    \/ Next
    \/ \E i \in Positions, tag \in ConstructorTags :
          replaceCommandBuiltFor(i, tag)

InitReplaceCellWith == InitProgram /\ watch = {<<"replaceCellWith", "builtFor">>}
SpecReplaceCellWith == InitReplaceCellWith /\ [][ReplaceNext]_vars

InitCreate == InitProgram /\ watch = {<<"createAbove", "">>, <<"createBelow", "">>}
SpecCreate == InitCreate /\ [][Next]_vars

InitActivate ==
    InitProgram /\ watch = {<<"activateAbove", "noop">>, <<"activateBelow", "noop">>}
SpecActivate == InitActivate /\ [][Next]_vars

\* The editor session to its end and after: the elements of the component
\* get events while it is mounted, the monitor and the listener while they
\* are registered; the document and the text selection go on changing.
LifecycleNext ==
    \/ subscriptions.mounted /\ ComponentNext
    \/ subscriptions.dragMonitors > 0 /\ DropNext
    \/ subscriptions.selectionListeners > 0 /\ SelectionChangeNext
    \/ /\ subscriptions.selectionListeners = 0
       /\ \E type \in SelectionTypes : selectionChangeUnheard(type)
    \/ RemoteNext
    \/ Unmount

SpecLifecycle == Init /\ [][LifecycleNext]_vars

InitDropSelf == InitProgram /\ watch = {<<"onDrop", "self">>}
SpecDropSelf == InitDropSelf /\ [][Next]_vars

InitTextSelection == InitProgram /\ watch = {<<"handleSelectionChange", "clearCells">>}
SpecTextSelection == InitTextSelection /\ [][Next]_vars

TypeOK ==
    /\ cells \in Seq([id : Ids, tag : Tags])
    /\ Len(cells) <= MaxLen
    /\ activeCell \in -1..MaxLen
    /\ selectedCells \subseteq Ids
    /\ textSelection \in SelectionTypes
    /\ nextId \in 1..(MaxIds + 1)
    /\ \/ last.op \in {"init", "other"}
       \/ <<last.op, last.path>> \in watch
    /\ running.pc \in {"idle", "changeNotebook", "spliced", "returned"}
    /\ running.pc = "idle" => running = Idle
    /\ subscriptions.mounted \in BOOLEAN
    /\ subscriptions.dragMonitors \in 0..1
    /\ subscriptions.selectionListeners \in 0..1

----------------------------------------------------------------------------
(* Properties *)

\* The sequence s without the element at 0-based index i.
RemoveAt(s, i) ==
    [k \in 1..(Len(s) - 1) |-> IF k <= i THEN s[k] ELSE s[k + 1]]

SymDiff(A, B) == (A \ B) \cup (B \ A)

\* C1: in every reachable state activeCell is a valid index into the cell
\* sequence, or it is -1 and the notebook is empty.
C1_ActiveCellIsIndexOrEmpty ==
    \/ activeCell \in 0..(Len(cells) - 1)
    \/ activeCell = -1 /\ Len(cells) = 0

\* C2: deleteForward on the cell at index i shortens the sequence by exactly
\* one cell and leaves activeCell = min(i, newLen - 1), which is -1 when the
\* notebook has become empty.
C2_DeleteForwardClamps ==
    [][\A i \in Positions :
         deleteForward(i) =>
           /\ Len(cells') = Len(cells) - 1
           /\ activeCell' = Min(i, Len(cells') - 1)]_vars

\* C3: deleteBackward on the cell at index i removes exactly that cell and
\* leaves activeCell = i - 1; at i = 0 that is -1, whether or not other
\* cells remain.
C3_DeleteBackward ==
    [][\A i \in Positions :
         deleteBackward(i) =>
           /\ Len(cells') = Len(cells) - 1
           /\ cells' = RemoveAt(cells, i)
           /\ activeCell' = i - 1
           /\ (i = 0 => activeCell' = -1)]_vars

\* A deleteBackward at index 0 that left other cells behind.
C3_Witness ==
    /\ last.op = "deleteBackward"
    /\ activeCell = -1
    /\ Len(cells) > 0

\* C4: no two positions of the cell sequence hold the same cell id.
C4_UniqueIds ==
    \A j, k \in 1..Len(cells) : j # k => cells[j].id # cells[k].id

\* A drag-reorder has just moved a cell of a notebook of two cells, one of
\* them created after another cell was deleted.
C4_Witness ==
    /\ last.op = "onDrop" /\ last.path = "move" /\ last.tx
    /\ Len(cells) = 2
    /\ cells[1].id = 3

\* C5: a drop of the cell at index a on the cell at index b # a, for either
\* edge, yields a permutation: same length, the moved cell's id exactly
\* once, at the computed destination index, the other cells in their order.
C5_ReorderIsPermutation ==
    \A a, b \in Indices, edge \in Edges :
        a # b =>
          LET id == cells[a + 1].id
              after == onDropCells(cells, id, cells[b + 1].id, edge)
          IN /\ Len(after) = Len(cells)
             /\ Count(after, id) = 1
             /\ after[getReorderDestinationIndex(a, b, edge) + 1].id = id
             /\ Without(after, id) = Without(cells, id)

\* A drag-reorder has just moved a cell of a notebook of four cells, which
\* are now in the reverse of their first order.
C5_Witness ==
    /\ last.op = "onDrop" /\ last.path = "move"
    /\ Len(cells) = 4
    /\ \A k \in 1..3 : cells[k].id > cells[k + 1].id

\* C6: addOrReplaceActiveCell on an active stem cell keeps the length, puts
\* the new cell at the active index and keeps activeCell; on an active
\* rich-text or formal cell, or with no cell at the active index, the length
\* and activeCell both grow by 1.
C6_AddOrReplaceActiveCell ==
    [][\A tag \in ConstructorTags :
         insertCommand(tag) =>
           IF activeCell \in Indices /\ cells[activeCell + 1].tag = "stem"
           THEN /\ Len(cells') = Len(cells)
                /\ cells'[activeCell + 1] = construct(nextId, tag)
                /\ activeCell' = activeCell
           ELSE /\ Len(cells') = Len(cells) + 1
                /\ activeCell' = activeCell + 1]_vars

\* An insert command has just replaced the active stem cell of a notebook of
\* two cells.
C6_Witness ==
    /\ last.op = "addOrReplaceActiveCell" /\ last.path = "replace"
    /\ Len(cells) = 2
    /\ activeCell \in Indices
    /\ cells[activeCell + 1].tag \in ConstructorTags
    /\ cells[activeCell + 1].id = nextId - 1

\* The outcome of a call setActiveCell(j).
ActiveCellSetTo(j) == activeCell' = j /\ selectedCells' = {}

\* C7: setActiveCell(i) leaves activeCell = i and an empty selectedCells, in
\* every operation that calls it; setActiveCellViaFocus(i) leaves
\* activeCell = i and selectedCells as it was.
C7_SetActiveCell ==
    [][/\ \A i \in Indices :
            /\ (i > 0 /\ activateAbove(i)) => ActiveCellSetTo(i - 1)
            /\ (i < Len(cells) - 1 /\ activateBelow(i)) => ActiveCellSetTo(i + 1)
            /\ createAbove(i) => ActiveCellSetTo(i)
            /\ createBelow(i) => ActiveCellSetTo(i + 1)
            /\ deleteBackward(i) => ActiveCellSetTo(i - 1)
            /\ deleteForward(i) => ActiveCellSetTo(i)
            /\ hasFocused(i) =>
                   activeCell' = i /\ selectedCells' = selectedCells
       /\ ShiftEnter => ActiveCellSetTo(activeCell + 1)
       /\ appendButton => ActiveCellSetTo(Len(cells))
       /\ \A tag \in ConstructorTags :
            (/\ ~(activeCell \in Indices /\ cells[activeCell + 1].tag = "stem")
             /\ insertCommand(tag)) => ActiveCellSetTo(activeCell + 1)
      ]_vars

\* A cell has just reported focus while two cells were selected, and the
\* selection is still there.
C7_Witness ==
    /\ last.op = "hasFocused"
    /\ Cardinality(selectedCells) = 2
    /\ activeCell \in Indices

\* C8: toggleCellSelection(id) replaces selectedCells by its symmetric
\* difference with {id}; a second toggle of the same id gives back the
\* selection the first one started from.
C8_ToggleInvolution ==
    [][\A i \in Positions :
         handleCellContentClick(i, TRUE) =>
           /\ selectedCells' = SymDiff(selectedCells, {cells[i + 1].id})
           /\ newSelection(selectedCells', cells[i + 1].id) = selectedCells
      ]_vars

\* A Ctrl-click has just toggled a cell while another one was selected.
C8_Witness ==
    /\ last.op = "handleCellContentClick" /\ last.path = "toggle"
    /\ Cardinality(selectedCells) = 2

\* C9: after the handlers of an event have run, selectedCells is not
\* non-empty while the platform holds a text range selection.
C9_SelectionsExclusive ==
    ~(selectedCells # {} /\ textSelection = "Range")

\* The selectionchange listener has just cleared the cell selection because
\* a text range was selected.
C9_Witness ==
    /\ last.op = "handleSelectionChange" /\ last.path = "clearCells"
    /\ textSelection = "Range"
    /\ selectedCells = {}

\* C10: a drop whose source id or target id is not the id of a cell of the
\* current sequence submits no transaction and changes neither the cell
\* sequence nor activeCell nor selectedCells. (The observer of SpecDropStale
\* marks the drops with such an id.)
C10_StaleDropIsNoOp ==
    [][(last'.op = "onDrop" /\ last'.path = "stale") =>
          /\ ~last'.tx
          /\ cells' = cells
          /\ activeCell' = activeCell
          /\ selectedCells' = selectedCells]_vars

\* A drop has just been abandoned in a notebook of two cells, one of the two
\* ids being the id of a cell that is gone.
C10_Witness ==
    /\ last.op = "onDrop" /\ last.path = "stale" /\ ~last.tx
    /\ Len(cells) = 2
    /\ IdSet(cells) # 1..(nextId - 1)

\* C11: from the call of a handler that edits the document (its index
\* computation included) to the end of its transaction, the document is the
\* one the handler was called on, so no remote merge has taken effect in
\* between; the draft that a drag-reorder is about to commit is the move by
\* the indices it looked up, applied to the current document.
C11_LocalEditIsIndivisible ==
    running.pc # "idle" =>
      /\ cells = running.start
      /\ (running.op = "onDrop" /\ running.pc = "returned") =>
            running.nb = moveCell(cells, running.i, running.j)

\* The transaction function of a drag-reorder has returned with a draft
\* that differs from the document, in a session that has used every id.
C11_Witness ==
    /\ running.pc = "returned"
    /\ running.op = "onDrop"
    /\ running.nb # cells
    /\ nextId = MaxIds + 1

\* C12: when the transaction function of a local edit throws, or its
\* transaction fails, the cell sequence is the one the operation was called
\* on.
C12_FailedTransactionAppliesNothing ==
    [][(/\ running.pc # "idle"
        /\ last'.op = "changeNotebook"
        /\ last'.path \in {"threw", "failed"}) =>
          /\ running'.pc = "idle"
          /\ cells' = running.start]_vars

\* A transaction has just failed after its function had returned, in a
\* notebook of two cells.
C12_Witness ==
    /\ last.op = "changeNotebook" /\ last.path = "failed"
    /\ running.pc = "idle"
    /\ Len(cells) = 2

\* C13: the scenario, step by step. On the empty notebook with
\* activeCell = -1, appendCell(stem) gives one cell and activeCell = 0; from
\* there addOrReplaceActiveCell(rich text) gives one rich-text cell and
\* activeCell = 0; from there createBelow at index 0 gives two cells, a stem
\* cell at index 1 and activeCell = 1; from there the drop of the cell at
\* index 1 before the cell at index 0 gives the same two cells in reversed
\* order.
C13_Scenario ==
    [][/\ (/\ cells = <<>> /\ activeCell = -1
           /\ appendButton) =>
              /\ Len(cells') = 1
              /\ activeCell' = 0
              /\ cells'[1].tag = "stem"
       /\ (/\ Len(cells) = 1 /\ activeCell = 0 /\ cells[1].tag = "stem"
           /\ insertCommand("rich-text")) =>
              /\ Len(cells') = 1
              /\ activeCell' = 0
              /\ cells'[1].tag = "rich-text"
       /\ (/\ Len(cells) = 1 /\ activeCell = 0 /\ cells[1].tag = "rich-text"
           /\ createBelow(0)) =>
              /\ Len(cells') = 2
              /\ activeCell' = 1
              /\ cells'[1] = cells[1]
              /\ cells'[2].tag = "stem"
       /\ (/\ Len(cells) = 2 /\ activeCell = 1
           /\ cells[1].tag = "rich-text" /\ cells[2].tag = "stem"
           /\ onDrop(cells[2].id, cells[1].id, "top")) =>
              /\ Len(cells') = 2
              /\ cells'[1] = cells[2]
              /\ cells'[2] = cells[1]
              /\ cells'[1].id # cells'[2].id
      ]_vars

\* The end of the scenario: the first cell (id 1) was replaced by the
\* rich-text cell (id 2), the stem cell (id 3) was created below it and has
\* just been dropped before it.
C13_Witness ==
    /\ last.op = "onDrop" /\ last.path = "move"
    /\ cells = <<[id |-> 3, tag |-> "stem"], [id |-> 2, tag |-> "rich-text"]>>
    /\ activeCell = 1
    /\ nextId = 4

\* C14: addAfterActiveCell(cell), in any reachable state, inserts the cell
\* at index activeCell + 1 and sets activeCell to that index, so that the
\* cell at the new activeCell is the inserted one and the cells that were
\* there keep their order.
C14_AddAfterActiveCell ==
    [][ShiftEnter =>
         /\ activeCell' = activeCell + 1
         /\ activeCell' \in 0..(Len(cells') - 1)
         /\ cells'[activeCell' + 1] = newStemCell(nextId)
         /\ Without(cells', nextId) = cells]_vars

\* C15: after a drop of the cell at index a on the cell at index b # a, the
\* moved cell is immediately before the target cell when the closest edge
\* is the top edge and immediately after it when it is the bottom edge,
\* whether a < b or a > b.
C15_DropLandsNextToTarget ==
    \A a, b \in Indices, edge \in Edges :
        a # b =>
          LET sourceId == cells[a + 1].id
              targetId == cells[b + 1].id
              after == onDropCells(cells, sourceId, targetId, edge)
              moved == findIndex(after, sourceId)
              target == findIndex(after, targetId)
          IN /\ moved >= 0 /\ target >= 0
             /\ edge = "top" => moved = target - 1
             /\ edge = "bottom" => moved = target + 1

\* A drop has just left the four cells of a notebook in the order 2, 3, 1, 4
\* (from 1, 2, 3, 4: the first cell dropped on the bottom edge of the third).
C15_Witness ==
    /\ last.op = "onDrop" /\ last.path = "move"
    /\ Len(cells) = 4
    /\ <<cells[1].id, cells[2].id, cells[3].id, cells[4].id>> = <<2, 3, 1, 4>>

\* C16 as claimed: after any cell insertion (addAfterActiveCell, appendCell,
\* createAbove, createBelow, a remote insert) and after any drag-reorder,
\* selectedCells is what it was before the operation.
C16_SelectionSurvivesInsertions ==
    [][(Len(cells') = Len(cells) + 1 \/ last'.op = "onDrop") =>
          selectedCells' = selectedCells]_vars

\* C16, amended: after a remote insert and after any drag-reorder,
\* selectedCells is what it was before; a local insertion goes through
\* setActiveCell and leaves selectedCells empty.
C16_SelectionSurvivesRemoteAndReorder ==
    [][/\ last'.op \in {"RemoteInsert", "onDrop"} =>
            selectedCells' = selectedCells
       /\ (Len(cells') = Len(cells) + 1 /\ last'.op # "RemoteInsert") =>
            selectedCells' = {}]_vars

\* A drag-reorder has just moved a cell while both cells of the notebook
\* were selected, and they still are.
C16_Witness ==
    /\ last.op = "onDrop" /\ last.path = "move"
    /\ Cardinality(selectedCells) = 2
    /\ selectedCells = IdSet(cells)

\* C17: replaceCellWith(i, cell) overwrites exactly the cell at index i (the
\* length, the cells at the other positions and activeCell are unchanged);
\* with an index outside 0..len-1 it leaves the sequence unchanged.
C17_ReplaceCellWith ==
    [][\A i \in Positions, tag \in ConstructorTags :
         replaceCommandBuiltFor(i, tag) =>
           IF i \in Indices
           THEN /\ Len(cells') = Len(cells)
                /\ cells'[i + 1] = construct(nextId, tag)
                /\ \A k \in Indices : k # i => cells'[k + 1] = cells[k + 1]
                /\ activeCell' = activeCell
           ELSE cells' = cells]_vars

C19_ActivateAboveBelow ==
    [][\A i \in Indices :
         /\ activateAbove(i) =>
              /\ cells' = cells
              /\ i > 0 => activeCell' = i - 1
              /\ i = 0 => cellsState' = cellsState
              /\ activeCell' # activeCell => activeCell' \in 0..(Len(cells') - 1)
         /\ activateBelow(i) =>
              /\ cells' = cells
              /\ i < Len(cells) - 1 => activeCell' = i + 1
              /\ i = Len(cells) - 1 => cellsState' = cellsState
              /\ activeCell' # activeCell => activeCell' \in 0..(Len(cells') - 1)
      ]_vars

\* activateBelow has just been called on the last cell of a notebook of two
\* cells, one of which is selected, and nothing has moved.
C19_Witness ==
    /\ last.op = "activateBelow" /\ last.path = "noop"
    /\ Len(cells) = 2
    /\ selectedCells # {}

\* C20: the drag monitor and the selectionchange listener are registered
\* once in the editor session, one of each is live while the editor is
\* mounted and none after; once the editor is unmounted no event changes
\* CellsState, and the notebook only changes by remote merges.
C20_SubscriptionsReleased ==
    [][/\ subscriptions'.monitorRegistrations = 1
       /\ subscriptions'.listenerRegistrations = 1
       /\ subscriptions'.dragMonitors = (IF subscriptions'.mounted THEN 1 ELSE 0)
       /\ subscriptions'.selectionListeners =
             (IF subscriptions'.mounted THEN 1 ELSE 0)
       /\ ~subscriptions.mounted =>
            /\ cellsState' = cellsState
            /\ cells' # cells => RemoteNext]_vars

\* After the unmount a text range has been selected while cells were
\* selected, and the cell selection is still there.
C20_Witness ==
    /\ ~subscriptions.mounted
    /\ subscriptions.dragMonitors = 0
    /\ subscriptions.selectionListeners = 0
    /\ selectedCells # {}
    /\ textSelection = "Range"

\* C21: in every reachable state selectedCells holds only ids of cells that
\* are in the notebook.
C21_SelectionIsOfPresentCells ==
    selectedCells \subseteq IdSet(cells)

\* C22: when the transaction of an operation that also repositions the
\* active cell (addAfterActiveCell, appendCell, createAbove, createBelow,
\* deleteBackward, deleteForward) fails and the cell sequence is left as it
\* was, activeCell and selectedCells are left as they were at the call too.
C22_FailedTransactionKeepsCellsState ==
    [][(/\ running.op \in CellEditOps \cup InsertOps
        /\ last'.op = "changeNotebook"
        /\ last'.path \in {"threw", "failed"}
        /\ cells' = running.start) =>
          /\ activeCell' = running.startState.activeCell
          /\ selectedCells' = running.startState.selectedCells]_vars

\* C23: a drop of a cell on itself, with either closest edge, leaves the
\* cell sequence as it was (the same ids in the same order) and leaves
\* activeCell and selectedCells unchanged. (The observer of SpecDropSelf
\* marks the drops whose source id and target id are the id of one cell of
\* the sequence.)
C23_SelfDropChangesNothing ==
    [][(last'.op = "onDrop" /\ last'.path = "self") =>
          /\ cells' = cells
          /\ activeCell' = activeCell
          /\ selectedCells' = selectedCells]_vars

\* The second of two cells has just been dropped on itself, which went
\* through a transaction, while the first one was selected.
C23_Witness ==
    /\ last.op = "onDrop" /\ last.path = "self" /\ last.tx
    /\ Len(cells) = 2
    /\ selectedCells = {cells[1].id}
    /\ activeCell = 1

====
